---- MODULE Spec2Model ----
(***************************************************************************)
(* pi-doom: the frame-loop coordinator (DoomComponent) of the pi extension *)
(* (src/src/index.ts) and of the standalone runner (src/src/standalone.ts) *)
(* and the input translator mapKeyToDoom.                                  *)
(*                                                                         *)
(* A token (the string handed to handleInput) is a sequence of UTF-16 code *)
(* units.  The engine is the external collaborator: it is represented by   *)
(* the list of key events it has received (pushKey) and by the number of   *)
(* the frame it currently shows.                                           *)
(***************************************************************************)
EXTENDS Integers, Sequences, FiniteSets, TLC

\* ------------------------------------------------------------------ bounds
\* key presses (pushKey calls of handleInput) that are explored
MaxPresses == 3
\* invocations of the exit callback that are explored
MaxCalls == 2
\* completed ticks that are explored
MaxVersion == 2
\* widths handed to render are 0..MaxWidth
MaxWidth == 1
\* host heights (tui.height) are 1..MaxHostHeight
MaxHostHeight == 3
\* length of the tokens enumerated for the input translator
MaxTokenLen == 2
\* the longest base64 text of a frame, in chunks
MaxPayload == 3
\* the largest numbers of columns and rows handed to the Kitty renderer
MaxKittyCols == 2
MaxKittyRows == 2
\* the largest width and height of the small source frames
MaxSrc == 2
\* the largest numbers of columns and rows of the small half-block targets
MaxCols == 3
MaxRows == 2
\* the largest numbers of columns and rows a frame is scaled down for
MaxScaleCols == 4
MaxScaleRows == 3

\* --------------------------------------------------------------- DoomKeys
KEY_RIGHTARROW == 174
KEY_LEFTARROW == 172
KEY_UPARROW == 173
KEY_DOWNARROW == 175
KEY_STRAFE_L == 160
KEY_STRAFE_R == 161
KEY_USE == 162
KEY_FIRE == 163
KEY_ESCAPE == 27
KEY_ENTER == 13
KEY_TAB == 9
KEY_BACKSPACE == 127
KEY_EQUALS == 61
KEY_MINUS == 45

\* renderKitty: the longest payload of one escape sequence
CHUNK_SIZE == 4096

\* the resolution of the engine's frame
DOOM_WIDTH == 640
DOOM_HEIGHT == 400

\* ------------------------------------------------------- string helpers
\* String.prototype.toLowerCase on one code unit (ASCII and Latin-1)
ToLower(c) ==
  IF c >= 65 /\ c <= 90 THEN c + 32
  ELSE IF c >= 192 /\ c <= 222 /\ c # 215 THEN c + 32
  ELSE c

ToLowerStr(s) == [i \in DOMAIN s |-> ToLower(s[i])]

\* the relational operators of JavaScript on strings: code-unit lexicographic
RECURSIVE StrLess(_, _)
StrLess(a, b) ==
  IF Len(b) = 0 THEN FALSE
  ELSE IF Len(a) = 0 THEN TRUE
  ELSE IF a[1] # b[1] THEN a[1] < b[1]
  ELSE StrLess(Tail(a), Tail(b))

StrLE(a, b) == a = b \/ StrLess(a, b)

\* String.prototype.includes
Includes(s, sub) ==
  \E i \in 1..(Len(s) + 1) :
    /\ i + Len(sub) - 1 <= Len(s)
    /\ SubSeq(s, i, i + Len(sub) - 1) = sub

\* a table that forgets the upper-case letters
mapKeyToDoomNoFold(data, name) ==
  LET keyName == ToLowerStr(name) IN
  IF data = <<27, 91, 65>> \/ keyName = <<117, 112>> THEN <<KEY_UPARROW>>
  ELSE IF data = <<27, 91, 66>> \/ keyName = <<100, 111, 119, 110>> THEN <<KEY_DOWNARROW>>
  ELSE IF data = <<27, 91, 67>> \/ keyName = <<114, 105, 103, 104, 116>> THEN <<KEY_RIGHTARROW>>
  ELSE IF data = <<27, 91, 68>> \/ keyName = <<108, 101, 102, 116>> THEN <<KEY_LEFTARROW>>
  ELSE IF data = <<119>> THEN <<KEY_UPARROW>>
  ELSE IF data = <<115>> THEN <<KEY_DOWNARROW>>
  ELSE IF data = <<97>> THEN <<KEY_STRAFE_L>>
  ELSE IF data = <<100>> THEN <<KEY_STRAFE_R>>
  ELSE IF data = <<32>> THEN <<KEY_USE>>
  ELSE IF data = <<13>> \/ data = <<10>> \/ keyName = <<114, 101, 116, 117, 114, 110>> THEN <<KEY_ENTER>>
  ELSE IF data = <<27>> \/ keyName = <<101, 115, 99, 97, 112, 101>> THEN <<KEY_ESCAPE>>
  ELSE IF data = <<9>> \/ keyName = <<116, 97, 98>> THEN <<KEY_TAB>>
  ELSE IF data = <<127>> \/ keyName = <<98, 97, 99, 107, 115, 112, 97, 99, 101>> THEN <<KEY_BACKSPACE>>
  ELSE IF Len(data) > 0 /\ data[1] < 32 /\ data # <<3>> THEN <<KEY_FIRE>>
  ELSE IF StrLE(<<48>>, data) /\ StrLE(data, <<57>>) THEN <<data[1]>>
  ELSE IF data = <<43>> \/ data = <<61>> THEN <<KEY_EQUALS>>
  ELSE IF data = <<45>> THEN <<KEY_MINUS>>
  ELSE IF data = <<121>> THEN <<121>>
  ELSE IF data = <<110>> THEN <<110>>
  ELSE IF Len(data) = 1 /\ data[1] >= 32 THEN <<data[1]>>
  ELSE <<>>

\* mapKeyToDoom(data, name): name is <<>> when the argument is absent
\* (name?.toLowerCase() ?? "").  charCodeAt(0) of the empty string is NaN,
\* which is not < 32.
mapKeyToDoom(data, name) ==
  LET keyName == ToLowerStr(name) IN
  IF data = <<27, 91, 65>> \/ keyName = <<117, 112>> THEN <<KEY_UPARROW>>
  ELSE IF data = <<27, 91, 66>> \/ keyName = <<100, 111, 119, 110>> THEN <<KEY_DOWNARROW>>
  ELSE IF data = <<27, 91, 67>> \/ keyName = <<114, 105, 103, 104, 116>> THEN <<KEY_RIGHTARROW>>
  ELSE IF data = <<27, 91, 68>> \/ keyName = <<108, 101, 102, 116>> THEN <<KEY_LEFTARROW>>
  ELSE IF data = <<119>> \/ data = <<87>> THEN <<KEY_UPARROW>>
  ELSE IF data = <<115>> \/ data = <<83>> THEN <<KEY_DOWNARROW>>
  ELSE IF data = <<97>> \/ data = <<65>> THEN <<KEY_STRAFE_L>>
  ELSE IF data = <<100>> \/ data = <<68>> THEN <<KEY_STRAFE_R>>
  ELSE IF data = <<32>> THEN <<KEY_USE>>
  ELSE IF data = <<13>> \/ data = <<10>> \/ keyName = <<114, 101, 116, 117, 114, 110>> THEN <<KEY_ENTER>>
  ELSE IF data = <<27>> \/ keyName = <<101, 115, 99, 97, 112, 101>> THEN <<KEY_ESCAPE>>
  ELSE IF data = <<9>> \/ keyName = <<116, 97, 98>> THEN <<KEY_TAB>>
  ELSE IF data = <<127>> \/ keyName = <<98, 97, 99, 107, 115, 112, 97, 99, 101>> THEN <<KEY_BACKSPACE>>
  ELSE IF Len(data) > 0 /\ data[1] < 32 /\ data # <<3>> THEN <<KEY_FIRE>>
  ELSE IF StrLE(<<48>>, data) /\ StrLE(data, <<57>>) THEN <<data[1]>>
  ELSE IF data = <<43>> \/ data = <<61>> THEN <<KEY_EQUALS>>
  ELSE IF data = <<45>> THEN <<KEY_MINUS>>
  ELSE IF data = <<121>> \/ data = <<89>> THEN <<121>>
  ELSE IF data = <<110>> \/ data = <<78>> THEN <<110>>
  ELSE IF Len(data) = 1 /\ data[1] >= 32 THEN <<ToLower(data[1])>>
  ELSE <<>>

\* a test that takes no token for a release report
isKeyReleaseNever(data) == FALSE

\* isKeyRelease of the terminal layer: a Kitty-protocol report whose event
\* type is 3 (release), and never a bracketed paste
isKeyRelease(data) ==
  /\ ~Includes(data, <<27, 91, 50, 48, 48, 126>>)
  /\ \E f \in {117, 126, 65, 66, 67, 68, 72, 70} : Includes(data, <<58, 51, f>>)


\* ------------------------------------------------------------------ state
VARIABLES
  variant,         \* "pi" (index.ts) or "standalone" (standalone.ts)
  renderMode,      \* "kitty" or "halfblock", fixed by the constructor
  interval,        \* the tick timer: "scheduled" or "null"
  keyStates,       \* Map token -> handle of its release timer (pi)
  timers,          \* the release timers that are scheduled and not yet fired
  nextTimer,       \* the handle the next setTimeout returns
  events,          \* the engine: the pushKey calls received, <<pressed, key>>
  engineFrame,     \* the engine: number of the frame getFrameRGBA returns
  version,         \* frame version (pi)
  cachedLines, cachedWidth, cachedHeight, cachedVersion,
  onCloseCalls,    \* invocations of the exit callback (onClose / onExit)
  unhandledFault,  \* a fault of tick() left the timer callback
  redrawRequested, \* tui.requestRender() has been called since the last render
  invalidated,     \* history: invalidate() has been called since the last render
  lastOp,          \* history: the operation that ran last
  inputs,          \* history: the mapped tokens delivered, in order
  lastRender,      \* history: arguments and result of the last render call
  keyIn, keyName, keyOut,  \* arguments and result of a mapKeyToDoom call
  callIn, callOut          \* arguments and result of a call of a renderer function

vars == <<variant, renderMode, interval, keyStates, timers, nextTimer, events,
          engineFrame, version, cachedLines, cachedWidth, cachedHeight,
          cachedVersion, onCloseCalls, unhandledFault, redrawRequested,
          invalidated, lastOp, inputs, lastRender, keyIn, keyName, keyOut,
          callIn, callOut>>

inputVars == <<keyStates, timers, nextTimer, events, inputs>>
cacheVars == <<cachedLines, cachedWidth, cachedHeight, cachedVersion>>
renderVars == <<version, engineFrame, redrawRequested, invalidated, lastRender>>
keyVars == <<keyIn, keyName, keyOut>>
callVars == <<callIn, callOut>>
fixedVars == <<variant, renderMode>>

\* the tokens delivered to handleInput of the pi extension: w, W, q, Q,
\* Ctrl+C and the pasted text "ab"
Tokens == { <<119>>, <<87>>, <<113>>, <<81>>, <<3>>, <<97, 98>> }

\* the tokens delivered to handleInput of the standalone runner, whose
\* terminal reports releases: w, the Kitty release report of w
\* (ESC [ 1 1 9 ; 1 : 3 u), q, Q, the release report of q, and Ctrl+C
SaTokens ==
  { <<119>>, <<27, 91, 49, 49, 57, 59, 49, 58, 51, 117>>, <<113>>, <<81>>,
    <<27, 91, 49, 49, 51, 59, 49, 58, 51, 117>>, <<3>> }

Op(name, data, again) == [op |-> name, data |-> data, again |-> again]

NoRender == [width |-> -1, height |-> -1, pulled |-> FALSE, out |-> <<>>]

NoCall == [fn |-> "none"]

InitCoordinator ==
  /\ variant \in {"pi", "standalone"}
  /\ renderMode \in (IF variant = "pi" THEN {"kitty", "halfblock"} ELSE {"halfblock"})
  /\ interval = "scheduled"
  /\ keyStates = <<>>
  /\ timers = {}
  /\ nextTimer = 1
  /\ events = <<>>
  /\ engineFrame = 0
  /\ version = 0
  /\ cachedLines = <<>>
  /\ cachedWidth = 0
  /\ cachedHeight = 0
  /\ cachedVersion = -1
  /\ onCloseCalls = 0
  /\ unhandledFault = FALSE
  /\ redrawRequested = FALSE
  /\ invalidated = FALSE
  /\ lastOp = Op("constructor", <<>>, FALSE)
  /\ inputs = <<>>
  /\ lastRender = NoRender
  /\ keyOut = <<>>
  /\ callOut = NoCall

Init ==
  /\ InitCoordinator
  /\ callIn = NoCall
  /\ keyIn = <<>>
  /\ keyName = <<>>

\* ----------------------------------------------------------------- engine
\* DoomEngine.pushKey for each key of doomKeys, in order
PushKeys(ev, pressed, doomKeys) ==
  ev \o [i \in 1..Len(doomKeys) |-> <<pressed, doomKeys[i]>>]

\* number of pushKey calls made by handleInput so far: every delivery of a
\* mapped token makes Len(doomKeys) of them
RECURSIVE Pushed(_)
Pushed(ins) ==
  IF ins = <<>> THEN 0
  ELSE Len(mapKeyToDoom(Head(ins).data, <<>>)) + Pushed(Tail(ins))

\* ----------------------------------------------- DoomComponent (index.ts)
\* a quit test that forgets the interrupt byte
IsQuitNoInterrupt(data) == data = <<113>> \/ data = <<81>>

\* the quit test of handleInput: Ctrl+C, q or Q
IsQuit(data) == data = <<3>> \/ data = <<113>> \/ data = <<81>>

\* a handleInput that leaves the token's earlier timer scheduled
ClearExistingSkipped(keyId) == timers

\* const existingTimer = keyStates.get(keyId); if (existingTimer) clearTimeout
ClearExisting(keyId) ==
  IF keyId \in DOMAIN keyStates
  THEN {t \in timers : t.id # keyStates[keyId]}
  ELSE timers

\* a dispose that clears the table but cancels no timer
KeepKeyReleases == timers

\* dispose: clearTimeout for every handle in keyStates.values()
ClearKeyReleases ==
  {t \in timers : \A k \in DOMAIN keyStates : keyStates[k] # t.id}

\* Map.prototype.set / delete / clear
MapSet(m, k, v) == [x \in DOMAIN m \cup {k} |-> IF x = k THEN v ELSE m[x]]
MapDelete(m, k) == [x \in DOMAIN m \ {k} |-> m[x]]
MapClear == <<>>

\* handleInput(data) of the pi extension
HandleInput(data) ==
  /\ variant = "pi"
  /\ IF IsQuit(data)
     THEN /\ onCloseCalls < MaxCalls
          /\ interval' = "null"
          /\ timers' = ClearKeyReleases
          /\ keyStates' = MapClear
          /\ onCloseCalls' = onCloseCalls + 1
          /\ lastOp' = Op("handleInput", data, FALSE)
          /\ UNCHANGED <<nextTimer, events, inputs>>
     ELSE LET doomKeys == mapKeyToDoom(data, <<>>)
              keyId == data
              timer == [id |-> nextTimer, keyId |-> keyId, keys |-> doomKeys]
              kept == ClearExisting(keyId)
          IN IF Len(doomKeys) = 0
             THEN /\ lastOp' = Op("handleInput", data, FALSE)
                  /\ UNCHANGED <<interval, onCloseCalls, inputVars>>
             ELSE /\ Pushed(inputs) + Len(doomKeys) <= MaxPresses
                  /\ events' = PushKeys(events, TRUE, doomKeys)
                  /\ timers' = kept \cup {timer}
                  /\ keyStates' = MapSet(keyStates, keyId, nextTimer)
                  /\ nextTimer' = nextTimer + 1
                  /\ inputs' = Append(inputs, [data |-> data, again |-> keyId \in DOMAIN keyStates])
                  /\ lastOp' = Op("handleInput", data, keyId \in DOMAIN keyStates)
                  /\ UNCHANGED <<interval, onCloseCalls>>
  /\ UNCHANGED <<fixedVars, cacheVars, renderVars, keyVars, callVars, unhandledFault>>

\* the callback given to setTimeout(..., 150).  All release timers have the
\* same delay, so they fire in the order in which they were scheduled.
ReleaseTimer ==
  /\ timers # {}
  /\ LET t == CHOOSE x \in timers : \A y \in timers : x.id <= y.id
     IN /\ events' = PushKeys(events, FALSE, t.keys)
        /\ keyStates' = MapDelete(keyStates, t.keyId)
        /\ timers' = timers \ {t}
        /\ lastOp' = Op("releaseTimer", t.keyId, FALSE)
  /\ UNCHANGED <<fixedVars, interval, nextTimer, inputs, cacheVars, renderVars,
                 keyVars, callVars, onCloseCalls, unhandledFault>>

\* the callback given to setInterval(..., TICK_MS): engine.tick() either
\* returns or throws; nothing catches the fault here
Tick ==
  /\ variant = "pi"
  /\ interval = "scheduled"
  /\ \E fault \in BOOLEAN :
       IF fault
       THEN /\ unhandledFault' = TRUE
            /\ lastOp' = Op("tickFail", <<>>, FALSE)
            /\ UNCHANGED <<version, engineFrame, redrawRequested>>
       ELSE /\ version < MaxVersion
            /\ engineFrame' = engineFrame + 1
            /\ version' = version + 1
            /\ redrawRequested' = TRUE
            /\ lastOp' = Op("tick", <<>>, FALSE)
            /\ UNCHANGED unhandledFault
  /\ UNCHANGED <<fixedVars, interval, inputVars, cacheVars, invalidated,
                 lastRender, keyVars, callVars, onCloseCalls>>

\* dispose(), called by the host
Dispose ==
  /\ variant = "pi"
  /\ interval' = "null"
  /\ timers' = ClearKeyReleases
  /\ keyStates' = MapClear
  /\ lastOp' = Op("dispose", <<>>, lastOp.op = "dispose")
  /\ UNCHANGED <<fixedVars, nextTimer, events, inputs, cacheVars, renderVars,
                 keyVars, callVars, onCloseCalls, unhandledFault>>

\* ------------------------------------------ DoomComponent (standalone.ts)
\* Q to quit, but not on release
SaIsQuit(data) == ~isKeyRelease(data) /\ (data = <<113>> \/ data = <<81>>)

SaHandleInput(data) ==
  /\ variant = "standalone"
  /\ IF SaIsQuit(data)
     THEN /\ onCloseCalls < MaxCalls
          /\ interval' = "null"
          /\ onCloseCalls' = onCloseCalls + 1
          /\ UNCHANGED <<events, inputs>>
     ELSE LET doomKeys == mapKeyToDoom(data, <<>>)
              released == isKeyRelease(data)
          IN IF Len(doomKeys) = 0
             THEN UNCHANGED <<interval, onCloseCalls, events, inputs>>
             ELSE /\ Pushed(inputs) + Len(doomKeys) <= MaxPresses
                  /\ events' = PushKeys(events, ~released, doomKeys)
                  /\ inputs' = Append(inputs, [data |-> data, again |-> FALSE])
                  /\ UNCHANGED <<interval, onCloseCalls>>
  /\ lastOp' = Op("handleInput", data, FALSE)
  /\ UNCHANGED <<fixedVars, keyStates, timers, nextTimer, cacheVars, renderVars,
                 keyVars, callVars, unhandledFault>>

\* dispose() of the standalone runner, called by the host
SaDispose ==
  /\ variant = "standalone"
  /\ interval' = "null"
  /\ lastOp' = Op("dispose", <<>>, lastOp.op = "dispose")
  /\ UNCHANGED <<fixedVars, inputVars, cacheVars, renderVars, keyVars, callVars, onCloseCalls,
                 unhandledFault>>

\* the setInterval callback of the standalone runner: a fault of tick() is
\* caught, and treated as quit
SaTick ==
  /\ variant = "standalone"
  /\ interval = "scheduled"
  /\ \E fault \in BOOLEAN :
       IF fault
       THEN /\ onCloseCalls < MaxCalls
            /\ interval' = "null"
            /\ onCloseCalls' = onCloseCalls + 1
            /\ lastOp' = Op("tickFail", <<>>, FALSE)
            /\ UNCHANGED <<engineFrame, redrawRequested>>
       ELSE /\ engineFrame < MaxVersion
            /\ engineFrame' = engineFrame + 1
            /\ redrawRequested' = TRUE
            /\ lastOp' = Op("tick", <<>>, FALSE)
            /\ UNCHANGED <<interval, onCloseCalls>>
  /\ UNCHANGED <<fixedVars, inputVars, cacheVars, version, invalidated,
                 lastRender, keyVars, callVars, unhandledFault>>

\* ------------------------------------------------- render cache (index.ts)
\* a cache test that compares the geometry only
CacheHitIgnoringVersion(width, height) ==
  width = cachedWidth /\ height = cachedHeight

\* the test that lets render return cachedLines
CacheHit(width, height) ==
  width = cachedWidth /\ height = cachedHeight /\ cachedVersion = version

\* what a line shows of the frame: the number of the frame when at least
\* one pixel of it is sampled, -1 otherwise
Pixels(frame, cols, rows) == IF cols >= 1 /\ rows >= 1 THEN frame ELSE -1

\* the lines render computes, each line <<kind, n, cols, rows, pixels>>.
\* kitty: height - 1 empty lines, then the cursor movement and the image
\* sequence (c=cols, r=rows in its parameters); halfblock: one line per row,
\* which is the bare reset sequence when there are no columns; then the footer
RenderLines(mode, frame, width, height) ==
  LET body ==
        IF mode = "kitty"
        THEN [i \in 1..(height - 1) |-> <<"empty", 0, 0, 0, -1>>]
             \o << <<"kitty", IF height > 1 THEN height - 1 ELSE 0, width, height,
                     Pixels(frame, width, height)>> >>
        ELSE [i \in 1..height |->
                IF width >= 1 THEN <<"row", i - 1, width, height, frame>>
                ELSE <<"row", 0, 0, 0, -1>>]
  IN body \o << <<"footer", 0, 0, 0, -1>> >>

\* render(width), with tui.height = hostHeight at the time of the call
Render(width, hostHeight) ==
  /\ variant = "pi"
  /\ LET height == hostHeight - 2
     IN IF CacheHit(width, height)
        THEN /\ lastRender' = [width |-> width, height |-> height, pulled |-> FALSE,
                               out |-> cachedLines]
             /\ UNCHANGED cacheVars
        ELSE LET lines == RenderLines(renderMode, engineFrame, width, height)
             IN /\ cachedLines' = lines
                /\ cachedWidth' = width
                /\ cachedHeight' = height
                /\ cachedVersion' = version
                /\ lastRender' = [width |-> width, height |-> height, pulled |-> TRUE,
                                  out |-> lines]
  /\ redrawRequested' = FALSE
  /\ invalidated' = FALSE
  /\ lastOp' = Op("render", <<>>, FALSE)
  /\ UNCHANGED <<fixedVars, interval, inputVars, version, engineFrame, keyVars, callVars,
                 onCloseCalls, unhandledFault>>

\* invalidate()
Invalidate ==
  /\ variant = "pi"
  /\ cachedWidth' = 0
  /\ cachedHeight' = 0
  /\ invalidated' = TRUE
  /\ lastOp' = Op("invalidate", <<>>, FALSE)
  /\ UNCHANGED <<fixedVars, interval, inputVars, cachedLines, cachedVersion, version,
                 engineFrame, redrawRequested, lastRender, keyVars, callVars, onCloseCalls,
                 unhandledFault>>

\* ------------------------------------------------------- input translator
\* the code units the enumerated tokens are made of
Chars ==
  { 1, 3, 9, 10, 13, 27, 32, 43, 45, 48, 53, 57, 58, 61, 65, 66, 67, 68, 78, 81,
    83, 87, 89, 90, 91, 97, 100, 110, 113, 115, 119, 121, 122, 126, 127, 201 }

\* every token of at most MaxTokenLen code units, the four arrow sequences,
\* PageUp (ESC [ 5 ~), Ctrl+Up (ESC [ 1 ; 5 A), the Kitty release report of w
\* and the pasted text "123"
AllTokens ==
  UNION {[1..n -> Chars] : n \in 0..MaxTokenLen}
  \cup { <<27, 91, 65>>, <<27, 91, 66>>, <<27, 91, 67>>, <<27, 91, 68>>,
         <<27, 91, 53, 126>>, <<27, 91, 49, 59, 53, 65>>,
         <<27, 91, 49, 49, 57, 59, 49, 58, 51, 117>>, <<49, 50, 51>> }

\* the optional second argument: absent, or "Up"
Names == { <<>>, <<85, 112>> }

\* one call mapKeyToDoom(keyIn, keyName)
Translate ==
  /\ lastOp.op = "constructor"
  /\ keyOut' = mapKeyToDoom(keyIn, keyName)
  /\ lastOp' = Op("mapKeyToDoom", keyIn, FALSE)
  /\ UNCHANGED <<fixedVars, interval, inputVars, cacheVars, renderVars, keyIn,
                 keyName, callVars, onCloseCalls, unhandledFault>>

\* ------------------------------------------------- double-precision numbers
\* The renderers compute their sampling positions in IEEE-754 double
\* precision. A natural number is held as its digits to the base 2^18, least
\* significant first and without leading zeros; a finite double that is not
\* negative is m * 2^e, held as the digits of m (zero, or 2^52 <= m < 2^53)
\* and the exponent e; inf marks the quotient of a division by zero.
Base == 262144

\* 2^k for k in 0..18
Pow2(k) ==
  <<1, 2, 4, 8, 16, 32, 64, 128, 256, 512, 1024, 2048, 4096, 8192, 16384, 32768,
    65536, 131072, 262144>>[k + 1]

RECURSIVE IntBitLen(_)
IntBitLen(n) == IF n = 0 THEN 0 ELSE 1 + IntBitLen(n \div 2)

RECURSIVE BNorm(_)
BNorm(b) == IF b = <<>> \/ b[Len(b)] # 0 THEN b ELSE BNorm(SubSeq(b, 1, Len(b) - 1))

RECURSIVE BFromInt(_)
BFromInt(n) == IF n = 0 THEN <<>> ELSE <<n % Base>> \o BFromInt(n \div Base)

RECURSIVE BToInt(_)
BToInt(b) == IF b = <<>> THEN 0 ELSE b[1] + Base * BToInt(Tail(b))

BitLen(b) == IF b = <<>> THEN 0 ELSE 18 * (Len(b) - 1) + IntBitLen(b[Len(b)])

\* the digit of b at position j, zero beyond its ends
Digit(b, j) == IF j >= 1 /\ j <= Len(b) THEN b[j] ELSE 0

\* the binary digit of weight 2^i of b
Bit(b, i) == (Digit(b, (i \div 18) + 1) \div Pow2(i % 18)) % 2

\* a < b
RECURSIVE BLessFrom(_, _, _)
BLessFrom(a, b, i) ==
  IF i = 0 THEN FALSE
  ELSE IF a[i] # b[i] THEN a[i] < b[i]
  ELSE BLessFrom(a, b, i - 1)

BLess(a, b) ==
  IF Len(a) # Len(b) THEN Len(a) < Len(b) ELSE BLessFrom(a, b, Len(a))

\* a - b for a >= b
RECURSIVE BSubFrom(_, _, _, _)
BSubFrom(a, b, i, borrow) ==
  IF i > Len(a) THEN <<>>
  ELSE LET d == a[i] - Digit(b, i) - borrow
       IN <<d % Base>> \o BSubFrom(a, b, i + 1, IF d < 0 THEN 1 ELSE 0)

BSub(a, b) == BNorm(BSubFrom(a, b, 1, 0))

\* b * n + c for natural numbers n and c below 2^13
RECURSIVE BMulFrom(_, _, _, _)
BMulFrom(b, n, i, carry) ==
  IF i > Len(b) THEN BFromInt(carry)
  ELSE LET d == b[i] * n + carry
       IN <<d % Base>> \o BMulFrom(b, n, i + 1, d \div Base)

BMulAdd(b, n, c) == BNorm(BMulFrom(b, n, 1, c))

\* b * 2^k
ShiftLeft(b, k) ==
  LET q == k \div 18
      s == k % 18
  IN BNorm([j \in 1..(Len(b) + q + 1) |->
              (Digit(b, j - q) % Pow2(18 - s)) * Pow2(s)
              + (Digit(b, j - q - 1) \div Pow2(18 - s))])

\* b \div 2^k
ShiftRight(b, k) ==
  LET q == k \div 18
      s == k % 18
  IN IF q >= Len(b) THEN <<>>
     ELSE BNorm([j \in 1..(Len(b) - q) |->
                   (Digit(b, j + q) \div Pow2(s))
                   + (Digit(b, j + q + 1) % Pow2(s)) * Pow2(18 - s)])

\* the long division of n * 2^s by d over the binary digits of weights 2^i
\* down to 2^lo of n * 2^s, entered with the quotient and the remainder of the
\* digits above
RECURSIVE BDivBits(_, _, _, _, _, _)
BDivBits(n, s, d, i, lo, qr) ==
  IF i < lo THEN qr
  ELSE LET r2 == BMulAdd(qr.r, 2, IF i < s THEN 0 ELSE Bit(n, i - s))
       IN IF BLess(r2, d)
          THEN BDivBits(n, s, d, i - 1, lo, [q |-> BMulAdd(qr.q, 2, 0), r |-> r2])
          ELSE BDivBits(n, s, d, i - 1, lo, [q |-> BMulAdd(qr.q, 2, 1), r |-> BSub(r2, d)])

\* the same, 18 binary digits at a time, from the j-th group down
RECURSIVE BDivFrom(_, _, _, _, _)
BDivFrom(n, s, d, j, qr) ==
  IF j = 0 THEN qr
  ELSE BDivFrom(n, s, d, j - 1, BDivBits(n, s, d, 18 * j - 1, 18 * (j - 1), qr))

\* quotient and remainder of n * 2^s by d
BDivMod(n, s, d) ==
  BDivFrom(n, s, d, ((BitLen(n) + s - 1) \div 18) + 1, [q |-> <<>>, r |-> <<>>])

Zero == [m |-> <<>>, e |-> 0, inf |-> FALSE]

Infinity == [m |-> <<>>, e |-> 0, inf |-> TRUE]

\* the double nearest to a number v with m * 2^e <= v < (m + 1) * 2^e, where
\* sticky tells that v is above m * 2^e: round to nearest, ties to even. A
\* value that is not exact comes with at least 55 binary digits.
RoundToDouble(m, e, sticky) ==
  IF m = <<>> THEN Zero
  ELSE IF BitLen(m) <= 53
  THEN [m |-> ShiftLeft(m, 53 - BitLen(m)), e |-> e - (53 - BitLen(m)), inf |-> FALSE]
  ELSE LET d == BitLen(m) - 53
           kept == ShiftRight(m, d)
           below == sticky \/ \E i \in 0..(d - 2) : Bit(m, i) = 1
           up == Bit(m, d - 1) = 1 /\ (below \/ Bit(kept, 0) = 1)
           r == IF up THEN BMulAdd(kept, 1, 1) ELSE kept
       IN IF BitLen(r) = 54 THEN [m |-> ShiftRight(r, 1), e |-> e + d + 1, inf |-> FALSE]
          ELSE [m |-> r, e |-> e + d, inf |-> FALSE]

\* an integer as the double it converts to
DFromInt(n) == RoundToDouble(BFromInt(n), 0, FALSE)

\* a / b for natural numbers a and b below 2^13: the integer part and 72
\* binary digits of the fraction, 18 at a time, then the rounding
DDivInt(a, b) ==
  IF b = 0 THEN Infinity
  ELSE LET f1 == ((a % b) * Base) \div b
           r1 == ((a % b) * Base) % b
           f2 == (r1 * Base) \div b
           r2 == (r1 * Base) % b
           f3 == (r2 * Base) \div b
           r3 == (r2 * Base) % b
           f4 == (r3 * Base) \div b
           r4 == (r3 * Base) % b
       IN RoundToDouble(BNorm(<<f4, f3, f2, f1, a \div b>>), -72, r4 # 0)

\* x / y
DDiv(x, y) ==
  IF y.m = <<>> THEN Infinity
  ELSE IF x.m = <<>> THEN Zero
  ELSE LET qr == BDivMod(x.m, 55, y.m)
       IN RoundToDouble(qr.q, x.e - y.e - 55, qr.r # <<>>)

\* n * x for an integer n below 2^13
DMulInt(n, x) == RoundToDouble(BMulAdd(x.m, n, 0), x.e, FALSE)

\* x < y
DLess(x, y) ==
  IF x.inf THEN FALSE
  ELSE IF y.inf THEN TRUE
  ELSE IF y.m = <<>> THEN FALSE
  ELSE IF x.m = <<>> THEN TRUE
  ELSE IF x.e # y.e THEN x.e < y.e
  ELSE BLess(x.m, y.m)

MathMax(x, y) == IF DLess(x, y) THEN y ELSE x

\* Math.min(x, y)
MathMin(x, y) == IF DLess(y, x) THEN y ELSE x

\* Math.floor(x) as an integer, for x below 2^31
MathFloor(x) ==
  IF x.e >= 0 THEN BToInt(ShiftLeft(x.m, x.e)) ELSE BToInt(ShiftRight(x.m, 0 - x.e))

\* ---------------------------------------------------------- Kitty renderer
\* The base64 text of the PNG is a text of len characters, len a multiple of
\* four (the length of a base64 text) and at least the length of the smallest
\* PNG; its characters are told apart by their position, and
\* slice(from, to) is the part of the text at the positions from .. to - 1.
Slice(len, from, to) ==
  [from |-> IF from < len THEN from ELSE len, to |-> IF to < len THEN to ELSE len]

\* `a=T,f=100,q=2,c=${targetCols},r=${targetRows}` as its key-value pairs;
\* the value of a is the code unit of "T"
KittyParams(targetCols, targetRows) ==
  << <<"a", 84>>, <<"f", 100>>, <<"q", 2>>, <<"c", targetCols>>, <<"r", targetRows>> >>

\* one escape sequence ESC _ G control ; payload ESC \
KittySeq(control, payload) == [control |-> control, payload |-> payload]

IsLastStrict(offset, len) == offset + CHUNK_SIZE > len

IsLast(offset, len) == offset + CHUNK_SIZE >= len

\* the while loop of renderKitty, from its state (offset, isFirst, chunks)
RECURSIVE KittyLoop(_, _, _, _, _)
KittyLoop(len, params, offset, isFirst, chunks) ==
  IF ~(offset < len) THEN chunks
  ELSE LET chunk == Slice(len, offset, offset + CHUNK_SIZE)
           pushed == IF isFirst THEN KittySeq(params \o << <<"m", 1>> >>, chunk)
                     ELSE IF IsLast(offset, len) THEN KittySeq(<< <<"m", 0>> >>, chunk)
                     ELSE KittySeq(<< <<"m", 1>> >>, chunk)
       IN KittyLoop(len, params, offset + CHUNK_SIZE, FALSE, Append(chunks, pushed))

\* the escape sequences of the text renderKitty returns, in order
renderKitty(len, targetCols, targetRows) ==
  LET params == KittyParams(targetCols, targetRows)
  IN IF len <= CHUNK_SIZE THEN << KittySeq(params, Slice(len, 0, len)) >>
     ELSE KittyLoop(len, params, 0, TRUE, <<>>)

\* the lengths of the base64 text: every multiple of four from 92 characters
\* (a PNG of 67 bytes) to MaxPayload chunks
PayloadLengths == { 4 * n : n \in 23..((MaxPayload * CHUNK_SIZE) \div 4) }

\* one call renderKitty(rgba, width, height, targetCols, targetRows)
RenderKittyCall ==
  /\ lastOp.op = "constructor"
  /\ callIn.fn = "renderKitty"
  /\ callOut' = [fn |-> "renderKitty",
                 out |-> renderKitty(callIn.len, callIn.targetCols, callIn.targetRows)]
  /\ lastOp' = Op("renderKitty", <<>>, FALSE)
  /\ UNCHANGED <<fixedVars, interval, inputVars, cacheVars, renderVars, keyVars,
                 callIn, onCloseCalls, unhandledFault>>

\* ----------------------------------------------------- half-block renderer
\* A source frame is its kind and its size. A "gradient" frame has a
\* different colour at every position; a "redblue" frame is red (255,0,0) in
\* its upper half and blue (0,0,255) in its lower half.
FramePixel(src, x, y) ==
  IF src.kind = "gradient"
  THEN <<x % 256, y % 256, (x \div 256) + 4 * (y \div 256), 255>>
  ELSE IF 2 * y < src.height THEN <<255, 0, 0, 255>> ELSE <<0, 0, 255, 255>>

\* rgba[i]: -1 stands for undefined, the value of an index outside the array
Rgba(src, i) ==
  IF i < 0 \/ i >= src.width * src.height * 4 THEN -1
  ELSE FramePixel(src, (i \div 4) % src.width, (i \div 4) \div src.width)[(i % 4) + 1]

\* v ?? 0
OrZero(v) == IF v = -1 THEN 0 ELSE v

SrcIdxTransposed(srcY, width, srcX) == (srcX * width + srcY) * 4

\* (srcY * width + srcX) * 4
SrcIdx(srcY, width, srcX) == (srcY * width + srcX) * 4

\* the characters that follow the two colour sequences of a cell: the
\* template of doom-renderer.ts holds U+2580, the one of standalone.ts holds
\* U+00E2 U+2013 U+20AC
Glyph(impl) == IF impl = "doom-renderer" THEN <<9600>> ELSE <<226, 8211, 8364>>

\* what one pass of the inner loop appends to the line
HalfBlockCell(impl, src, srcY1, srcY2, srcX) ==
  LET idx1 == SrcIdx(srcY1, src.width, srcX)
      idx2 == SrcIdx(srcY2, src.width, srcX)
  IN << <<"fg", OrZero(Rgba(src, idx1)), OrZero(Rgba(src, idx1 + 1)),
           OrZero(Rgba(src, idx1 + 2))>>,
        <<"bg", OrZero(Rgba(src, idx2)), OrZero(Rgba(src, idx2 + 1)),
           OrZero(Rgba(src, idx2 + 2))>> >>
     \o [k \in 1..Len(Glyph(impl)) |-> <<"char", Glyph(impl)[k], 0, 0>>]

\* the cells of the columns 0 .. targetCols - 1 of a row, in order
HalfBlockCells(impl, src, targetCols, scaleX, srcY1, srcY2) ==
  SubSeq([c \in 1..targetCols |->
            HalfBlockCell(impl, src, srcY1, srcY2, MathFloor(DMulInt(c - 1, scaleX)))],
         1, targetCols)

\* the line the cells make, each g elements long, with the reset sequence
\* appended
LineOfCells(cells, g) ==
  [k \in 1..(Len(cells) * g + 1) |->
     IF k = Len(cells) * g + 1 THEN <<"reset", 0, 0, 0>>
     ELSE cells[((k - 1) \div g) + 1][((k - 1) % g) + 1]]

\* what one pass of the outer loop pushes
HalfBlockLine(impl, src, targetCols, scaleX, scaleY, row) ==
  LineOfCells(HalfBlockCells(impl, src, targetCols, scaleX,
                             MathFloor(DMulInt(row * 2, scaleY)),
                             MathFloor(DMulInt(row * 2 + 1, scaleY))),
              2 + Len(Glyph(impl)))

\* the loop over the rows 0 .. targetRows - 1
HalfBlockLines(impl, src, targetCols, targetRows, scaleX, scaleY) ==
  [r \in 1..targetRows |-> HalfBlockLine(impl, src, targetCols, scaleX, scaleY, r - 1)]

\* the lines renderHalfBlock returns
renderHalfBlock(impl, src, targetCols, targetRows) ==
  HalfBlockLines(impl, src, targetCols, targetRows, DDivInt(src.width, targetCols),
                 DDivInt(src.height, targetRows * 2))

\* the source frames: the engine's frame, small frames, and the frame of two
\* by two pixels that is red above and blue below
Sources ==
  { [kind |-> "gradient", width |-> DOOM_WIDTH, height |-> DOOM_HEIGHT],
    [kind |-> "redblue", width |-> 2, height |-> 2] }
  \cup [kind : {"gradient"}, width : 1..MaxSrc, height : 1..MaxSrc]

\* the numbers of columns: small ones, and terminals 80 and 154 columns wide
TargetCols == 0..MaxCols \cup {80, 154}

\* one call renderHalfBlock(rgba, width, height, targetCols, targetRows)
RenderHalfBlockCall ==
  /\ lastOp.op = "constructor"
  /\ callIn.fn = "renderHalfBlock"
  /\ callOut' = [fn |-> "renderHalfBlock",
                 out |-> renderHalfBlock(callIn.impl, callIn.src, callIn.targetCols,
                                         callIn.targetRows)]
  /\ lastOp' = Op("renderHalfBlock", <<>>, FALSE)
  /\ UNCHANGED <<fixedVars, interval, inputVars, cacheVars, renderVars, keyVars,
                 callIn, onCloseCalls, unhandledFault>>

\* ------------------------------------------------------------------ scaler
\* the value a Uint8Array element takes when it is assigned rgba[i]
ToUint8(v) == IF v = -1 THEN 0 ELSE v

\* the two loops of scaleDown: the elements 0 .. newWidth * newHeight * 4 - 1
\* of the new buffer, srcX[x + 1] and srcY[y + 1] being the source positions
\* of column x and of row y
ScaledBytes(src, newWidth, newHeight, srcX, srcY) ==
  [i \in 0..(newWidth * newHeight * 4 - 1) |->
     ToUint8(Rgba(src, SrcIdx(srcY[((i \div 4) \div newWidth) + 1], src.width,
                              srcX[((i \div 4) % newWidth) + 1]) + (i % 4)))]

\* Math.floor(k / scale) for k = 0 .. n - 1
SrcPositions(n, scale) ==
  SubSeq([k \in 1..n |-> MathFloor(DDiv(DFromInt(k - 1), scale))], 1, n)

\* scaleDown from the scale on
ScaledBy(src, scale, newWidth, newHeight) ==
  [same |-> FALSE, width |-> newWidth, height |-> newHeight,
   bytes |-> ScaledBytes(src, newWidth, newHeight, SrcPositions(newWidth, scale),
                         SrcPositions(newHeight, scale))]

\* scaleDown(rgba, width, height, maxWidth, maxHeight): same tells that the
\* buffer returned is the buffer passed in, bytes holds the new buffer
scaleDown(src, maxWidth, maxHeight) ==
  IF src.width <= maxWidth /\ src.height <= maxHeight
  THEN [same |-> TRUE, width |-> src.width, height |-> src.height, bytes |-> <<>>]
  ELSE LET scale == MathMin(DDivInt(maxWidth, src.width), DDivInt(maxHeight, src.height))
       IN ScaledBy(src, scale, MathFloor(DMulInt(src.width, scale)),
                   MathFloor(DMulInt(src.height, scale)))

\* the frames handed to scaleDown: the engine's frame and small frames
ScaleSources ==
  { [kind |-> "gradient", width |-> DOOM_WIDTH, height |-> DOOM_HEIGHT] }
  \cup [kind : {"gradient"}, width : 1..MaxSrc, height : 1..MaxSrc]

\* the call scaleDown(rgba, width, height, targetCols * 10, targetRows * 20)
\* of renderKitty
ScaleDownCall ==
  /\ lastOp.op = "constructor"
  /\ callIn.fn = "scaleDown"
  /\ callOut' = [fn |-> "scaleDown",
                 out |-> scaleDown(callIn.src, callIn.targetCols * 10,
                                   callIn.targetRows * 20)]
  /\ lastOp' = Op("scaleDown", <<>>, FALSE)
  /\ UNCHANGED <<fixedVars, interval, inputVars, cacheVars, renderVars, keyVars,
                 callIn, onCloseCalls, unhandledFault>>

\* --------------------------------------------------------- specifications
\* input handling, timers, ticks and shutdown of both coordinators
Next ==
  \/ \E data \in Tokens : HandleInput(data)
  \/ ReleaseTimer
  \/ Tick
  \/ Dispose
  \/ \E data \in SaTokens : SaHandleInput(data)
  \/ SaTick
  \/ SaDispose

Spec == Init /\ [][Next]_vars

\* the render cache of the pi extension: ticks, renders, invalidations, shutdown
InitCache == Init /\ variant = "pi"

NextCache ==
  \/ Tick
  \/ \E width \in 0..MaxWidth, hostHeight \in 1..MaxHostHeight : Render(width, hostHeight)
  \/ Invalidate
  \/ Dispose

SpecCache == InitCache /\ [][NextCache]_vars

\* the input translator on every enumerated token
InitKeys ==
  /\ InitCoordinator
  /\ variant = "pi"
  /\ renderMode = "halfblock"
  /\ keyIn \in AllTokens
  /\ keyName \in Names
  /\ callIn = NoCall

NextKeys == Translate

SpecKeys == InitKeys /\ [][NextKeys]_vars

\* the Kitty renderer on every enumerated payload
InitKitty ==
  /\ InitCoordinator
  /\ variant = "pi"
  /\ renderMode = "kitty"
  /\ keyIn = <<>>
  /\ keyName = <<>>
  /\ callIn \in [fn : {"renderKitty"}, len : PayloadLengths,
                  targetCols : 1..MaxKittyCols, targetRows : 1..MaxKittyRows]

NextKitty == RenderKittyCall

SpecKitty == InitKitty /\ [][NextKitty]_vars

\* the half-block renderers of doom-renderer.ts and of standalone.ts
InitHalfBlock ==
  /\ InitCoordinator
  /\ renderMode = "halfblock"
  /\ keyIn = <<>>
  /\ keyName = <<>>
  /\ callIn \in [fn : {"renderHalfBlock"},
                  impl : {IF variant = "pi" THEN "doom-renderer" ELSE "standalone"},
                  src : Sources, targetCols : TargetCols, targetRows : 0..MaxRows]

NextHalfBlock == RenderHalfBlockCall

SpecHalfBlock == InitHalfBlock /\ [][NextHalfBlock]_vars

\* the scaler as renderKitty calls it
InitScale ==
  /\ InitCoordinator
  /\ variant = "pi"
  /\ renderMode = "kitty"
  /\ keyIn = <<>>
  /\ keyName = <<>>
  /\ callIn \in [fn : {"scaleDown"}, src : ScaleSources,
                  targetCols : 1..MaxScaleCols, targetRows : 1..MaxScaleRows]

NextScale == ScaleDownCall

SpecScale == InitScale /\ [][NextScale]_vars

\* ----------------------------------------------------------------- claims
CountEv(ev, e) == Cardinality({i \in 1..Len(ev) : ev[i] = e})

\* the token t has been delivered three times to the running pi coordinator,
\* the second and the third time while its release timer was pending, and
\* nothing else has been delivered
Repeated(t) ==
  /\ variant = "pi"
  /\ interval = "scheduled"
  /\ inputs = << [data |-> t, again |-> FALSE], [data |-> t, again |-> TRUE],
                 [data |-> t, again |-> TRUE] >>

\* C1, as stated: a token delivered three times, each time before the release
\* timer of the previous delivery has fired, reaches the engine as exactly one
\* press and, once its timer has fired, exactly one release.
C1_OnePressOneRelease ==
  \A t \in Tokens :
    (Repeated(t) /\ timers = {}) =>
      LET k == mapKeyToDoom(t, <<>>)[1]
      IN CountEv(events, <<TRUE, k>>) = 1 /\ CountEv(events, <<FALSE, k>>) = 1

\* C1, amended: such a token reaches the engine as one press per delivery
\* (three presses, no release between them) with exactly one release timer
\* pending, and as exactly one release after the last press once the timer
\* has fired.
C1_PressPerDeliveryOneRelease ==
  \A t \in Tokens :
    Repeated(t) =>
      LET k == mapKeyToDoom(t, <<>>)[1]
      IN IF timers = {}
         THEN events = << <<TRUE, k>>, <<TRUE, k>>, <<TRUE, k>>, <<FALSE, k>> >>
         ELSE /\ events = << <<TRUE, k>>, <<TRUE, k>>, <<TRUE, k>> >>
              /\ Cardinality(timers) = 1

C1_Witness ==
  /\ Repeated(<<119>>)
  /\ timers = {}
  /\ lastOp.op = "releaseTimer"

\* C2: every scheduled release timer is the one the key state table records
\* for its token, so there is at most one scheduled release timer per token.
C2_OneTimerPerToken ==
  /\ \A t \in timers : t.keyId \in DOMAIN keyStates /\ keyStates[t.keyId] = t.id
  /\ \A t1 \in timers, t2 \in timers : t1.keyId = t2.keyId => t1 = t2

\* w is pressed again while the timers of w and of W are both pending
C2_Witness ==
  /\ lastOp.op = "handleInput"
  /\ lastOp.again
  /\ Cardinality(timers) = 2

\* C3: when dispose() returns the tick timer is cancelled, no release timer
\* is scheduled and the key state table is empty, no callback has been invoked
\* and no fault raised; a dispose() that follows a dispose() changes nothing.
C3_DisposeIdempotent ==
  [][ lastOp'.op = "dispose" =>
        /\ interval' = "null"
        /\ timers' = {}
        /\ DOMAIN keyStates' = {}
        /\ onCloseCalls' = onCloseCalls
        /\ unhandledFault' = unhandledFault
        /\ lastOp'.again =>
             UNCHANGED <<interval, keyStates, timers, nextTimer, events, engineFrame,
                         version, cacheVars, onCloseCalls, unhandledFault>> ]_vars

\* dispose() has run twice in a row after it cancelled the release timer of
\* a pressed key
C3_Witness ==
  /\ variant = "pi"
  /\ lastOp = Op("dispose", <<>>, TRUE)
  /\ Len(events) = 1
  /\ timers = {}

\* C4: once the coordinator is Stopped (its tick timer has been cancelled by
\* dispose), no release timer is pending, whatever input arrives afterwards.
C4_NoTimerAfterStop == interval = "null" => timers = {}

\* C5: after a tick whose engine.tick() failed, the coordinator is disposed,
\* the exit callback has been invoked and the fault has not left the timer
\* callback, in the pi extension as in the standalone runner.
C5_TickFaultIsQuit ==
  lastOp.op = "tickFail" =>
    /\ interval = "null"
    /\ onCloseCalls >= 1
    /\ ~unhandledFault

\* C6: a render call that follows a render call with the same width and the
\* same height, with no completed tick between them, returns the same lines,
\* and pulls no frame unless invalidate() was called between them; a render
\* call that follows a completed tick pulls the engine's current frame and
\* returns the lines computed from it.
C6_CacheCorrect ==
  [][ lastOp'.op = "render" =>
        /\ ( /\ lastRender # NoRender
             /\ lastRender'.width = lastRender.width
             /\ lastRender'.height = lastRender.height
             /\ ~redrawRequested )
           => /\ lastRender'.out = lastRender.out
              /\ ~invalidated => ~lastRender'.pulled
        /\ redrawRequested
           => /\ lastRender'.pulled
              /\ lastRender'.out =
                   RenderLines(renderMode, engineFrame, lastRender'.width,
                               lastRender'.height) ]_vars

\* a render that returned the cache, after a tick and an earlier render
C6_Witness ==
  /\ lastOp.op = "render"
  /\ ~lastRender.pulled
  /\ version >= 1
  /\ Len(lastRender.out) > 1

\* C7: whenever render returns the cached lines without recomputing, they are
\* the lines of the current frame at the width and height of this call.
C7_CacheValid ==
  (lastOp.op = "render" /\ ~lastRender.pulled) =>
    lastRender.out =
      RenderLines(renderMode, engineFrame, lastRender.width, lastRender.height)

C8Quit(v, data) ==
  \/ data = <<113>>
  \/ data = <<81>>
  \/ (v = "pi" /\ data = <<3>>)

\* C8: a quit token (q, Q, and Ctrl+C in the pi extension) handed to
\* handleInput cancels the tick timer and every release timer, invokes the
\* exit callback once, pushes no key event and schedules no timer.
C8_QuitIntercepted ==
  [][ (lastOp'.op = "handleInput" /\ C8Quit(variant, lastOp'.data)) =>
        /\ events' = events
        /\ nextTimer' = nextTimer
        /\ timers' = {}
        /\ DOMAIN keyStates' = {}
        /\ interval' = "null"
        /\ onCloseCalls' = onCloseCalls + 1 ]_vars

\* Ctrl+C quits the pi coordinator while the release timer of a key is pending
C8_Witness ==
  /\ variant = "pi"
  /\ lastOp = Op("handleInput", <<3>>, FALSE)
  /\ Len(events) = 1
  /\ onCloseCalls = 1
  /\ interval = "null"

Arrows == { <<27, 91, 65>>, <<27, 91, 66>>, <<27, 91, 67>>, <<27, 91, 68>> }

\* C9: the fire code comes only from a single control byte other than 0x03, a
\* digit's code only from that single digit, and the empty token and every
\* token of more than one character other than the four arrow sequences give
\* the empty sequence.
C9_UnmatchedIsEmpty ==
  (lastOp.op = "mapKeyToDoom" /\ keyName = <<>>) =>
    /\ keyOut = <<KEY_FIRE>> => (Len(keyIn) = 1 /\ keyIn[1] < 32 /\ keyIn # <<3>>)
    /\ \A c \in 48..57 : keyOut = <<c>> => keyIn = <<c>>
    /\ (Len(keyIn) > 1 /\ keyIn \notin Arrows) => keyOut = <<>>
    /\ keyIn = <<>> => keyOut = <<>>

\* the tokens the table of C10 names
C10Named(data) ==
  \/ data \in Arrows
  \/ data = <<3>>
  \/ Len(data) = 1 /\ (data[1] >= 32 \/ data[1] \in {9, 10, 13, 27})

\* the key codes the table of C10 gives them
C10Expected(data) ==
  CASE data \in {<<27, 91, 65>>, <<119>>, <<87>>} -> <<173>>
    [] data \in {<<27, 91, 66>>, <<115>>, <<83>>} -> <<175>>
    [] data = <<27, 91, 67>> -> <<174>>
    [] data = <<27, 91, 68>> -> <<172>>
    [] data \in {<<97>>, <<65>>} -> <<160>>
    [] data \in {<<100>>, <<68>>} -> <<161>>
    [] data = <<32>> -> <<162>>
    [] data \in {<<13>>, <<10>>} -> <<13>>
    [] data = <<27>> -> <<27>>
    [] data = <<9>> -> <<9>>
    [] data = <<127>> -> <<127>>
    [] data = <<3>> -> <<>>
    [] data \in {<<43>>, <<61>>} -> <<61>>
    [] data = <<45>> -> <<45>>
    [] data \in {<<121>>, <<89>>} -> <<121>>
    [] data \in {<<110>>, <<78>>} -> <<110>>
    [] OTHER -> IF data[1] \in 48..57 THEN <<data[1]>> ELSE <<ToLower(data[1])>>

C11Display(c, r) == << <<"a", 84>>, <<"f", 100>>, <<"q", 2>>, <<"c", c>>, <<"r", r>> >>

C11_KittyChunks ==
  lastOp.op = "renderKitty" =>
    LET out == callOut.out
        len == callIn.len
        n == Len(out)
        display == C11Display(callIn.targetCols, callIn.targetRows)
    IN /\ n >= 1
       /\ out[1].payload.from = 0
       /\ out[n].payload.to = len
       /\ \A i \in 1..n : out[i].payload.to - out[i].payload.from \in 1..4096
       /\ \A i \in 1..(n - 1) : out[i + 1].payload.from = out[i].payload.to
       /\ IF len <= 4096 THEN n = 1 /\ out[1].control = display
          ELSE /\ n >= 2
               /\ out[1].control = display \o << <<"m", 1>> >>
               /\ \A i \in 2..(n - 1) : out[i].control = << <<"m", 1>> >>
               /\ out[n].control = << <<"m", 0>> >>

\* a payload that takes a first, a middle and a last sequence, the last one full
C11_Witness ==
  /\ lastOp.op = "renderKitty"
  /\ Len(callOut.out) = 3
  /\ callIn.len = 3 * 4096
  /\ callOut.out[2].control = << <<"m", 1>> >>

\* C12: for every target size, renderHalfBlock returns exactly rows lines,
\* each of exactly cols cells (the two colour sequences and one half-block
\* glyph per cell) followed by exactly one reset sequence at its end.
C12_RowsOfCells ==
  lastOp.op = "renderHalfBlock" =>
    LET out == callOut.out
        cols == callIn.targetCols
    IN /\ Len(out) = callIn.targetRows
       /\ \A r \in 1..Len(out) :
            /\ Len(out[r]) = 3 * cols + 1
            /\ \A k \in 1..Len(out[r]) :
                 out[r][k][1] = (IF k = 3 * cols + 1 THEN "reset"
                                ELSE IF k % 3 = 1 THEN "fg"
                                ELSE IF k % 3 = 2 THEN "bg"
                                ELSE "char")
            /\ \A k \in 1..Len(out[r]) : out[r][k][1] = "char" => out[r][k][2] = 9600

\* C13 (as stated): in renderHalfBlock of doom-renderer.ts every cell
\* (row, col) is the foreground sequence, the background sequence and the
\* glyph in that order; the foreground is the colour of the source pixel at
\* x = floor(col*srcW/cols), y = floor(2*row*srcH/(2*rows)), the background the
\* one at the same x and y = floor((2*row+1)*srcH/(2*rows)), both inside the
\* frame; a frame of two by two pixels, red above and blue below, rendered
\* at one by one gives red foreground, blue background, one glyph, reset.
C13Cell(src, x, y1, y2) ==
  << <<"fg", FramePixel(src, x, y1)[1], FramePixel(src, x, y1)[2], FramePixel(src, x, y1)[3]>>,
     <<"bg", FramePixel(src, x, y2)[1], FramePixel(src, x, y2)[2], FramePixel(src, x, y2)[3]>>,
     <<"char", 9600, 0, 0>> >>

C13Inside(src, x, y) == x \in 0..(src.width - 1) /\ y \in 0..(src.height - 1)

C13Call ==
  /\ lastOp.op = "renderHalfBlock"
  /\ callIn.impl = "doom-renderer"
  /\ callIn.targetCols >= 1
  /\ callIn.targetRows >= 1

C13Example ==
  (callIn.src.kind = "redblue" /\ callIn.targetCols = 1 /\ callIn.targetRows = 1) =>
    callOut.out = << << <<"fg", 255, 0, 0>>, <<"bg", 0, 0, 255>>, <<"char", 9600, 0, 0>>,
                        <<"reset", 0, 0, 0>> >> >>

C13_ExactSampling ==
  C13Call =>
    LET src == callIn.src
        cols == callIn.targetCols
        rows == callIn.targetRows
    IN /\ C13Example
       /\ \A row \in 0..(rows - 1), col \in 0..(cols - 1) :
            LET x == (col * src.width) \div cols
                y1 == (2 * row * src.height) \div (2 * rows)
                y2 == ((2 * row + 1) * src.height) \div (2 * rows)
            IN /\ C13Inside(src, x, y1)
               /\ C13Inside(src, x, y2)
               /\ SubSeq(callOut.out[row + 1], 3 * col + 1, 3 * col + 3)
                    = C13Cell(src, x, y1, y2)

\* C13 (amended): as above, with the positions computed in double precision
\* from the scale factors srcW/cols and srcH/(2*rows): each is the floor
\* named above or, only where the divisor divides the product exactly and
\* the rounded scale factor falls short of the quotient, one less.
C13Near(n, d) == {n \div d} \cup (IF n % d = 0 /\ n > 0 THEN {(n \div d) - 1} ELSE {})

C13_SamplingInDoubles ==
  C13Call =>
    LET src == callIn.src
        cols == callIn.targetCols
        rows == callIn.targetRows
    IN /\ C13Example
       /\ \A row \in 0..(rows - 1) :
            \E y1 \in C13Near(2 * row * src.height, 2 * rows),
               y2 \in C13Near((2 * row + 1) * src.height, 2 * rows) :
              \A col \in 0..(cols - 1) :
                \E x \in C13Near(col * src.width, cols) :
                  /\ C13Inside(src, x, y1)
                  /\ C13Inside(src, x, y2)
                  /\ SubSeq(callOut.out[row + 1], 3 * col + 1, 3 * col + 3)
                       = C13Cell(src, x, y1, y2)

\* the engine's frame, 640 pixels wide, on 154 columns: column 77 shows the
\* pixel at x = 319, where floor(77*640/154) is 320
C13_Witness ==
  /\ C13Call
  /\ callIn.src.width = 640
  /\ callIn.targetCols = 154
  /\ callIn.targetRows = 2
  /\ callOut.out[2][3 * 77 + 1] = <<"fg", 319 % 256, 200, 1>>
  /\ callOut.out[2][3 * 77 + 2] = <<"bg", 319 % 256, 44, 5>>

\* C14: scaleDown returns the input buffer and its dimensions unchanged when
\* srcW <= maxW and srcH <= maxH; otherwise it returns the dimensions
\* floor(srcW*s), floor(srcH*s) for s = min(maxW/srcW, maxH/srcH), which
\* exceed neither the bounds nor the source dimensions, and every
\* destination pixel (x, y) is a copy of the source pixel at
\* (floor(x/s), floor(y/s)), a position inside the source frame.
\* s is the fraction C14Num / C14Den.
C14WidthLimits(w, h, maxW, maxH) == maxW * h <= maxH * w

C14Num(w, h, maxW, maxH) == IF C14WidthLimits(w, h, maxW, maxH) THEN maxW ELSE maxH

C14Den(w, h, maxW, maxH) == IF C14WidthLimits(w, h, maxW, maxH) THEN w ELSE h

C15Releases ==
  { <<27, 91, 49, 49, 57, 59, 49, 58, 51, 117>>,
    <<27, 91, 49, 49, 51, 59, 49, 58, 51, 117>> }

C15_ExplicitRelease ==
  [][ (variant = "standalone" /\ lastOp'.op = "handleInput"
       /\ lastOp'.data \notin {<<113>>, <<81>>}) =>
        LET data == lastOp'.data
            keys == mapKeyToDoom(data, <<>>)
        IN /\ events' = events \o [i \in 1..Len(keys) |-> <<data \notin C15Releases, keys[i]>>]
           /\ timers = {} /\ timers' = {}
           /\ nextTimer' = nextTimer
           /\ keyStates' = keyStates
           /\ data \in C15Releases => (interval' = interval /\ onCloseCalls' = onCloseCalls)
    ]_vars

\* w is pressed and its release report delivered: one press, then one
\* release of the key code the report maps to, and the loop still runs
C15_Witness ==
  /\ variant = "standalone"
  /\ lastOp = Op("handleInput", <<27, 91, 49, 49, 57, 59, 49, 58, 51, 117>>, FALSE)
  /\ Len(inputs) = 2
  /\ inputs[1].data = <<119>>
  /\ events = << <<TRUE, KEY_UPARROW>>, <<FALSE, KEY_FIRE>> >>
  /\ interval = "scheduled"
  /\ timers = {}

\* the engine holds key code k pressed: its last pushKey for k was a press
EngineDown(k) ==
  \E i \in 1..Len(events) :
    /\ events[i] = <<TRUE, k>>
    /\ \A j \in (i + 1)..Len(events) : events[j] # <<FALSE, k>>

\* C16: every key code the synthetic-release coordinator pushes as pressed is
\* eventually pushed as released, also when dispose() runs while the release
\* timer is pending: once the coordinator is stopped and no timer remains, no
\* key code is left pressed in the engine.
C16_NoKeyLeftPressed ==
  (variant = "pi" /\ interval = "null" /\ timers = {}) =>
    \A i \in 1..Len(events) : ~EngineDown(events[i][2])

\* C17: while a release timer is pending for a token, every key code the
\* token maps to is pressed in the engine, also when an older timer of
\* another token that maps to the same key code fires.
C17_PendingMeansPressed ==
  variant = "pi" => \A t \in timers : \A i \in 1..Len(t.keys) : EngineDown(t.keys[i])

\* C18: over any sequence of tokens, ticks, tick failures and dispose calls
\* the exit callback is invoked at most once.
C18_ExitAtMostOnce == onCloseCalls <= 1

====
